---- MODULE Spec2Model ----
(***************************************************************************)
(* A model of the session authentication / role authorization layer, the   *)
(* cache-aside read path and the Pub/Sub publish / push job path of the    *)
(* application under src/app.                                              *)
(***************************************************************************)
EXTENDS Integers, Sequences, FiniteSets, TLC

(***************************************************************************)
(* Bounds of the model.                                                    *)
(***************************************************************************)
NumClients == 2
MaxTicks == 2
MaxTokens == 2
NumWorkers == 2
MaxItems == 2

Clients == 1..NumClients
Workers == 1..NumWorkers
Emails == {"a@example.com", "b@example.com"}
SeedEmail == "seed@example.com"
Passwords == {"pw1", "pw2"}
RoleNames == {"admin", "editor"}

(***************************************************************************)
(* Program constants (auth.py, config.py).                                 *)
(***************************************************************************)
SESSION_MAX_AGE_SECONDS == 60 * 60 * 24 * 7
secret_key == "change-me"

\* Python's None for an optional integer (user ids are positive in the database).
None == -1

VARIABLES
    users,      \* rows of the users table (with the role names joined in)
    nextId,     \* the users.id sequence
    now,        \* wall clock in seconds
    ticks,      \* number of clock advances so far
    issued,     \* every token create_session_token has returned
    jar,        \* per client: the session cookie the browser holds
    life,       \* per client: where it is in register -> logout
    reg,        \* per client: the register request between its SELECT and its COMMIT
    resp,       \* the last response sent, with the client it went to
    items,      \* ids of the example_items rows, in order of creation
    todos,      \* rows of the todos table
    nextTodoId, \* the todos.id sequence
    broker,     \* settings and environment of the Pub/Sub publisher
    publisher,  \* queues._publisher: "None" or "client"
    topic,      \* the messages the Pub/Sub topic has accepted
    push,       \* per worker: the push delivery it serves or has last answered
    redis,      \* "up" or "down": whether the Redis server answers
    store,      \* the Redis keys: entries [key, value, expires]
    creq        \* the GET /api/items request being served or last answered

authVars == <<users, nextId, now, ticks, issued, jar, life, reg, resp>>
jobVars == <<broker, publisher, topic, push>>
cacheVars == <<redis, store, creq>>
todoVars == <<todos, nextTodoId>>
vars == <<authVars, items, todoVars, jobVars, cacheVars>>

(***************************************************************************)
(* models.py: a User row.                                                  *)
(***************************************************************************)
User(id, email, hashed_password, is_active, is_superuser, roles) ==
    [id |-> id, email |-> email, hashed_password |-> hashed_password,
     is_active |-> is_active, is_superuser |-> is_superuser, roles |-> roles]

\* The result of a lookup that found no row (Python None).
NoUser == User(None, "", "", FALSE, FALSE, {})

\* db.get(User, user_id)
db_get_User(rows, user_id) ==
    IF \E u \in rows : u.id = user_id
    THEN CHOOSE u \in rows : u.id = user_id
    ELSE NoUser

\* select(User).where(User.email == email) ... scalar_one_or_none()
select_User_by_email(rows, email) ==
    IF \E u \in rows : u.email = email
    THEN CHOOSE u \in rows : u.email = email
    ELSE NoUser

(***************************************************************************)
(* auth.py: password hashing.  A bcrypt hash is modelled by the password   *)
(* it verifies (the model's passwords are all shorter than 72 characters,  *)
(* so _truncate_for_bcrypt returns them unchanged).                        *)
(***************************************************************************)
hash_password(password) == <<"bcrypt", password>>

verify_password(plain_password, hashed_password) ==
    hash_password(plain_password) = hashed_password

(***************************************************************************)
(* auth.py: the session token codec (itsdangerous URLSafeTimedSerializer). *)
(* A token carries its payload, its issue timestamp and an HMAC over both  *)
(* under the signing key.                                                  *)
(***************************************************************************)
Sign(key, user_id, ts) == [key |-> key, user_id |-> user_id, ts |-> ts]

Token(user_id, ts, sig) == [user_id |-> user_id, ts |-> ts, sig |-> sig]

\* A missing cookie.
NoToken == Token(None, None, Sign("", None, None))

\* serializer.dumps({"user_id": user_id}) at time t
create_session_token(user_id, t) == Token(user_id, t, Sign(secret_key, user_id, t))

\* serializer.loads without the signature check: only the age counts.
serializer_loads_Unsigned(token, max_age, t) ==
    IF t - token.ts > max_age THEN "SignatureExpired" ELSE "ok"

\* serializer.loads(token, max_age): the signature is checked first, then the age.
serializer_loads(token, max_age, t) ==
    IF token.sig # Sign(secret_key, token.user_id, token.ts) THEN "BadSignature"
    ELSE IF t - token.ts > max_age THEN "SignatureExpired"
    ELSE "ok"

get_user_id_from_token(token, t) ==
    LET outcome == serializer_loads(token, SESSION_MAX_AGE_SECONDS, t) IN
    IF outcome = "SignatureExpired" THEN None
    ELSE IF outcome = "BadSignature" THEN None
    ELSE token.user_id

(***************************************************************************)
(* auth.py: the authorization gate.  A dependency either returns a user    *)
(* (status 200) or raises HTTPException(status).                           *)
(***************************************************************************)
Granted(user) == [status |-> 200, user |-> user]
HTTPException(status_code) == [status |-> status_code, user |-> NoUser]

\* get_current_user filtering on the active flag.
get_current_user_ActiveOnly(cookie, rows, t) ==
    IF cookie = NoToken THEN NoUser
    ELSE LET user_id == get_user_id_from_token(cookie, t) IN
         IF user_id = None \/ user_id = 0 THEN NoUser
         ELSE IF db_get_User(rows, user_id).is_active THEN db_get_User(rows, user_id)
         ELSE NoUser

get_current_user(cookie, rows, t) ==
    IF cookie = NoToken THEN NoUser
    ELSE LET user_id == get_user_id_from_token(cookie, t) IN
         IF user_id = None \/ user_id = 0 THEN NoUser
         ELSE db_get_User(rows, user_id)

require_authenticated_user(cookie, rows, t) ==
    LET user == get_current_user(cookie, rows, t) IN
    IF user = NoUser \/ ~user.is_active THEN HTTPException(401)
    ELSE Granted(user)

\* require_role without the superuser bypass.
require_role_NoBypass(cookie, rows, t, roles) ==
    LET auth == require_authenticated_user(cookie, rows, t) IN
    IF auth.status # 200 THEN auth
    ELSE IF auth.user.roles \cap roles = {} THEN HTTPException(403)
    ELSE Granted(auth.user)

require_role(cookie, rows, t, roles) ==
    LET auth == require_authenticated_user(cookie, rows, t) IN
    IF auth.status # 200 THEN auth
    ELSE IF auth.user.is_superuser THEN Granted(auth.user)
    ELSE IF auth.user.roles \cap roles = {} THEN HTTPException(403)
    ELSE Granted(auth.user)

(***************************************************************************)
(* Responses.  presented is the Cookie header of the request; cookie is    *)
(* the Set-Cookie effect of the response: "set" (set_session_cookie),      *)
(* "clear" (clear_session_cookie) or "none".                               *)
(***************************************************************************)
Response(client, kind, presented, status, cookie, user_id, roles) ==
    [client |-> client, kind |-> kind, presented |-> presented, status |-> status,
     cookie |-> cookie, user_id |-> user_id, roles |-> roles, todo_id |-> None]

NoResponse == Response(0, "none", NoToken, 0, "none", None, {})

Idle == [pc |-> "idle", email |-> "", password |-> ""]

\* A client that keeps no cookie jar: it sends whatever Cookie header it likes.
Anyone == 0

(***************************************************************************)
(* What such a client can send: nothing, a token the server issued, or one *)
(* altered without the signing key (another user id in the payload, a      *)
(* refreshed timestamp, a signature made with another key).                *)
(***************************************************************************)
Tampered(tok, t) ==
    {Token(u, tok.ts, tok.sig) : u \in (0..nextId) \ {tok.user_id}}
        \cup {Token(tok.user_id, ts, tok.sig) : ts \in {t, tok.ts + 1} \ {tok.ts}}
        \cup {Token(tok.user_id, tok.ts, Sign("forged", tok.user_id, tok.ts))}

Presentable == {NoToken} \cup issued \cup UNION {Tampered(tok, now) : tok \in issued}

(***************************************************************************)
(* routes/auth.py: POST /auth/register.  The handler's SELECT and its      *)
(* INSERT ... COMMIT are two database round trips; requests served by      *)
(* other workers run between them.                                         *)
(***************************************************************************)
RegisterCheck(c, email, password) ==
    /\ reg[c].pc = "idle"
    /\ LET existing == select_User_by_email(users, email) IN
       IF existing # NoUser
       THEN /\ resp' = Response(c, "register", jar[c], 400, "none", None, {})
            /\ UNCHANGED reg
       ELSE /\ reg' = [reg EXCEPT ![c] = [pc |-> "commit", email |-> email,
                                           password |-> password]]
            /\ UNCHANGED resp
    /\ UNCHANGED <<users, nextId, now, ticks, issued, jar, life>>
    /\ UNCHANGED <<items, todoVars, jobVars, cacheVars>>

\* db.add(user); db.commit(): users.email is UNIQUE, so the INSERT of a taken
\* email raises IntegrityError, which the handler does not catch (HTTP 500).
RegisterCommit(c) ==
    /\ reg[c].pc = "commit"
    /\ reg' = [reg EXCEPT ![c] = Idle]
    /\ nextId' = nextId + 1
    /\ IF \E u \in users : u.email = reg[c].email
       THEN /\ resp' = Response(c, "register", jar[c], 500, "none", None, {})
            /\ UNCHANGED <<users, issued, jar, life>>
       ELSE LET user == User(nextId, reg[c].email, hash_password(reg[c].password),
                             TRUE, FALSE, {})
                token == create_session_token(user.id, now) IN
            /\ users' = users \cup {user}
            /\ issued' = issued \cup {token}
            /\ jar' = [jar EXCEPT ![c] = token]
            /\ life' = [life EXCEPT ![c] = "registered"]
            /\ resp' = Response(c, "register", jar[c], 302, "set", user.id, {})
    /\ UNCHANGED <<now, ticks>>
    /\ UNCHANGED <<items, todoVars, jobVars, cacheVars>>

\* routes/auth.py: POST /auth/login.  A client with a jar stores the cookie.
Login(c, email, password) ==
    /\ c \in Clients => reg[c].pc = "idle"
    /\ LET user == select_User_by_email(users, email) IN
       IF user = NoUser \/ ~verify_password(password, user.hashed_password)
       THEN /\ resp' = Response(c, "login", NoToken, 400, "none", None, {})
            /\ UNCHANGED <<issued, jar, life>>
       ELSE LET token == create_session_token(user.id, now) IN
            /\ Cardinality(issued \cup {token}) <= MaxTokens
            /\ issued' = issued \cup {token}
            /\ jar' = [k \in Clients |-> IF k = c THEN token ELSE jar[k]]
            /\ life' = [k \in Clients |-> IF k = c THEN "loggedin" ELSE life[k]]
            /\ resp' = Response(c, "login", NoToken, 302, "set", user.id, {})
    /\ UNCHANGED <<users, nextId, now, ticks, reg>>
    /\ UNCHANGED <<items, todoVars, jobVars, cacheVars>>

\* logout without clear_session_cookie: the browser keeps its cookie.
Logout_KeepsCookie(c) ==
    /\ reg[c].pc = "idle"
    /\ life' = [life EXCEPT ![c] =
                   IF life[c] \in {"registered", "registered_loggedout"}
                   THEN "registered_loggedout" ELSE "none"]
    /\ resp' = Response(c, "logout", jar[c], 302, "none", None, {})
    /\ UNCHANGED <<users, nextId, now, ticks, issued, jar, reg>>
    /\ UNCHANGED <<items, todoVars, jobVars, cacheVars>>

\* routes/auth.py: POST /auth/logout
Logout(c) ==
    /\ reg[c].pc = "idle"
    /\ jar' = [jar EXCEPT ![c] = NoToken]
    /\ life' = [life EXCEPT ![c] =
                   IF life[c] \in {"registered", "registered_loggedout"}
                   THEN "registered_loggedout" ELSE "none"]
    /\ resp' = Response(c, "logout", jar[c], 302, "clear", None, {})
    /\ UNCHANGED <<users, nextId, now, ticks, issued, reg>>
    /\ UNCHANGED <<items, todoVars, jobVars, cacheVars>>

\* d seconds pass; Redis drops the keys whose time has come.
Tick(d) ==
    /\ ticks < MaxTicks
    /\ now' = now + d
    /\ ticks' = ticks + 1
    /\ store' = {e \in store : e.expires > now + d}
    /\ UNCHANGED <<users, nextId, issued, jar, life, reg, resp>>
    /\ UNCHANGED <<items, todoVars, jobVars, redis, creq>>

\* models.py: a users row is removed outside the application (its todos cascade).
DeleteUser ==
    /\ \E u \in users :
          /\ users' = users \ {u}
          /\ todos' = {t \in todos : t.user_id # u.id}
    /\ UNCHANGED <<nextId, now, ticks, issued, jar, life, reg, resp>>
    /\ UNCHANGED <<items, nextTodoId, jobVars, cacheVars>>

\* deps.py: an endpoint behind current_user_dep
CurrentUserRequest(c, cookie) ==
    /\ LET user == get_current_user(cookie, users, now) IN
       resp' = Response(c, "current_user", cookie, 200, "none", user.id, {})
    /\ UNCHANGED <<users, nextId, now, ticks, issued, jar, life, reg>>
    /\ UNCHANGED <<items, todoVars, jobVars, cacheVars>>

\* routes/views.py: GET /dashboard, behind authenticated_user_dep
Dashboard(c, cookie) ==
    /\ LET auth == require_authenticated_user(cookie, users, now) IN
       resp' = Response(c, "dashboard", cookie, auth.status, "none", auth.user.id, {})
    /\ UNCHANGED <<users, nextId, now, ticks, issued, jar, life, reg>>
    /\ UNCHANGED <<items, todoVars, jobVars, cacheVars>>

\* deps.py: an endpoint behind role_required_dep(*roles)
RoleRequest(c, cookie, roles) ==
    /\ LET auth == require_role(cookie, users, now, roles) IN
       resp' = Response(c, "role", cookie, auth.status, "none", auth.user.id, roles)
    /\ UNCHANGED <<users, nextId, now, ticks, issued, jar, life, reg>>
    /\ UNCHANGED <<items, todoVars, jobVars, cacheVars>>

(***************************************************************************)
(* queues.py: the job publisher.  broker.configured: settings.gcp_project_id *)
(* and settings.pubsub_topic are both set; broker.credentials: the process *)
(* has Google credentials, without which PublisherClient() raises.         *)
(***************************************************************************)
Returned(p, t) == [raised |-> FALSE, publisher |-> p, topic |-> t]
Raised(p, t) == [raised |-> TRUE, publisher |-> p, topic |-> t]

\* get_publisher(): [raised, publisher] with _publisher after the call
get_publisher(env, p) ==
    IF ~env.configured THEN [raised |-> FALSE, publisher |-> "None", cached |-> p]
    ELSE IF p = "None"
         THEN IF env.credentials
              THEN [raised |-> FALSE, publisher |-> "client", cached |-> "client"]
              ELSE [raised |-> TRUE, publisher |-> "None", cached |-> "None"]
         ELSE [raised |-> FALSE, publisher |-> p, cached |-> p]

\* publish_event(data): accepted says whether the broker takes the message; when
\* it does not, the failure arrives in the future and the done-callback drops it.
publish_event(data, env, p, t, accepted) ==
    LET got == get_publisher(env, p) IN
    IF got.raised THEN Raised(got.cached, t)
    ELSE IF got.publisher = "None" THEN Returned(got.cached, t)
    ELSE IF accepted THEN Returned(got.cached, t \cup {data})
    ELSE Returned(got.cached, t)

(***************************************************************************)
(* JSON values as the job path uses them: an object with its "type" and    *)
(* "item_id" members (Absent / None when the key is missing), or a value   *)
(* that is not an object.                                                  *)
(***************************************************************************)
Absent == "<absent>"
JObject(type, item_id) == [json |-> "object", type |-> type, item_id |-> item_id]
JScalar == [json |-> "scalar", type |-> Absent, item_id |-> None]

\* routes/api.py: POST /api/items/{item_id}/process
ProcessItem(c, cookie, item_id, accepted) ==
    /\ LET auth == require_authenticated_user(cookie, users, now) IN
       IF auth.status # 200
       THEN /\ resp' = Response(c, "process_item", cookie, 401, "none", None, {})
            /\ UNCHANGED <<publisher, topic>>
       ELSE LET out == publish_event(JObject("process_item", item_id), broker,
                                     publisher, topic, accepted) IN
            /\ publisher' = out.publisher
            /\ topic' = out.topic
            /\ resp' = Response(c, "process_item", cookie,
                                IF out.raised THEN 500 ELSE 200, "none",
                                auth.user.id, {})
    /\ UNCHANGED <<users, nextId, now, ticks, issued, jar, life, reg>>
    /\ UNCHANGED <<items, todoVars, broker, push, cacheVars>>

(***************************************************************************)
(* worker_main.py: the push endpoint.  The "data" member of the envelope   *)
(* is missing, empty, or a string that base64-decodes (or fails to) to     *)
(* text that JSON-decodes (or fails to) to a value.                        *)
(***************************************************************************)
Data(enc, value) == [enc |-> enc, value |-> value]

NoData == Data("missing", JScalar)
EmptyData == Data("empty", JScalar)
BadBase64 == Data("bad-base64", JScalar)
NotJson == Data("not-json", JScalar)
\* base64(json.dumps(value)), as the broker wraps a published message
Envelope(value) == Data("json", value)

\* base64.b64decode(data_b64).decode("utf-8"); json.loads(decoded)
decode(data) ==
    IF data.enc = "json" THEN [ok |-> TRUE, payload |-> data.value]
    ELSE [ok |-> FALSE, payload |-> JScalar]

NotInvoked == -2
Delivery(pc, body, status, invoked) ==
    [pc |-> pc, body |-> body, status |-> status, invoked |-> invoked]
NoPush == Delivery("idle", NoData, 0, NotInvoked)

\* A handler that records each job it handles as a new row.
handle_process_item_Inserts(payload, rows) ==
    IF payload.item_id = None \/ payload.item_id = 0 THEN rows
    ELSE Append(rows, Len(rows) + 1)

\* handle_process_item(payload): the example_items table after the handler.
\* The row is only read (db.get), and only for a truthy item_id.
handle_process_item(payload, rows) ==
    IF payload.item_id = None \/ payload.item_id = 0 THEN rows
    ELSE rows

\* The response of worker w to the delivery it serves; invoked is the item_id
\* handle_process_item was called with.
Answer(w, status, invoked) ==
    push' = [push EXCEPT ![w] = Delivery("answered", push[w].body, status, invoked)]

\* A delivery arrives at worker w.
PushReceive(w, body) ==
    /\ push[w].pc \in {"idle", "answered"}
    /\ push' = [push EXCEPT ![w] = Delivery("received", body, 0, NotInvoked)]
    /\ UNCHANGED <<authVars, items, todoVars, broker, publisher, topic, cacheVars>>

\* pubsub_push up to its await of handle_process_item
PushDecode(w) ==
    /\ push[w].pc = "received"
    /\ LET data_b64 == push[w].body
           got == decode(data_b64) IN
       IF data_b64.enc \in {"missing", "empty"} THEN Answer(w, 400, NotInvoked)
       ELSE IF ~got.ok THEN Answer(w, 400, NotInvoked)
       ELSE IF got.payload.json # "object" THEN Answer(w, 500, NotInvoked)
       ELSE IF got.payload.type = "process_item"
            THEN push' = [push EXCEPT ![w].pc = "handle"]
            ELSE Answer(w, 200, NotInvoked)
    /\ UNCHANGED <<authVars, items, todoVars, broker, publisher, topic, cacheVars>>

\* handle_process_item runs and pubsub_push returns {"status": "ok"}
PushHandle(w) ==
    /\ push[w].pc = "handle"
    /\ LET payload == decode(push[w].body).payload IN
       /\ items' = handle_process_item(payload, items)
       /\ Answer(w, 200, payload.item_id)
    /\ UNCHANGED <<authVars, todoVars, broker, publisher, topic, cacheVars>>

\* models.py: an example_items row is inserted outside the application.
InsertItem ==
    /\ Len(items) < MaxItems
    /\ items' = Append(items, Len(items) + 1)
    /\ UNCHANGED <<authVars, todoVars, jobVars, cacheVars>>

ItemIds == {0, 1}

\* The request bodies delivered: {"message": {}}, and "data" holding a string
\* that is not base64, base64 of "not-json", of "7", and of job objects.
Bodies ==
    {NoData, EmptyData, BadBase64, NotJson, Envelope(JScalar),
     Envelope(JObject("other", None)), Envelope(JObject("process_item", None))}
        \cup {Envelope(JObject("process_item", item_id)) : item_id \in ItemIds}

JobsAtRest ==
    /\ items = <<>>
    /\ todos = {}
    /\ nextTodoId = 1
    /\ broker = [configured |-> FALSE, credentials |-> FALSE]
    /\ publisher = "None"
    /\ topic = {}
    /\ push = [w \in Workers |-> NoPush]

(***************************************************************************)
(* cache.py and routes/api.py: the cached item listing.                    *)
(***************************************************************************)
\* @cached(ttl=30) on list_items
LIST_ITEMS_TTL == 30

\* repr() of the request's SQLAlchemy Session names the address of the object;
\* get_db makes a new Session for every request.
SessionAddrs == {"0x7f3a10", "0x7f3a58"}

\* The rows list_items returns: newest first, at most 100.
list_items(rows) ==
    LET n == Len(rows)
        m == IF n > 100 THEN 100 ELSE n IN
    [i \in 1..m |-> [id |-> rows[n + 1 - i]]]

json_dumps(value) == [json_text |-> value]
json_loads(text) == text.json_text

\* f"{func.__module__}:{func.__name__}:{args}:{kwargs}" for list_items(db=session)
cache_key(addr) == <<"app.routes.api", "list_items", <<>>, <<"db", addr>>>>

Entry(key, value, expires) == [key |-> key, value |-> value, expires |-> expires]

\* cache_get(key): raises when Redis does not answer; a key past its expiry is gone.
cache_get(key, server, entries, t) ==
    IF server = "down" THEN [raised |-> TRUE, hit |-> FALSE, value |-> <<>>]
    ELSE IF \E e \in entries : e.key = key /\ e.expires > t
         THEN [raised |-> FALSE, hit |-> TRUE,
               value |-> json_loads((CHOOSE e \in entries : e.key = key /\ e.expires > t).value)]
         ELSE [raised |-> FALSE, hit |-> FALSE, value |-> <<>>]

\* cache_set(key, value, ttl): SETEX; raises when Redis does not answer.
cache_set(key, value, ttl, server, entries, t) ==
    IF server = "down" THEN [raised |-> TRUE, entries |-> entries]
    ELSE [raised |-> FALSE,
          entries |-> {e \in entries : e.key # key}
                          \cup {Entry(key, json_dumps(value), t + ttl)}]

CacheRequest(pc, key, status, value, computed) ==
    [pc |-> pc, key |-> key, status |-> status, value |-> value, computed |-> computed]
NoRequest == CacheRequest("idle", cache_key(""), 0, <<>>, FALSE)

\* cached.wrapper up to the call of the wrapped function
ListItemsGet(addr) ==
    /\ creq.pc \in {"idle", "answered"}
    /\ LET key == cache_key(addr)
           cached_value == cache_get(key, redis, store, now) IN
       IF cached_value.raised
       THEN creq' = CacheRequest("answered", key, 500, <<>>, FALSE)
       ELSE IF cached_value.hit
            THEN creq' = CacheRequest("answered", key, 200, cached_value.value, FALSE)
            ELSE creq' = CacheRequest("miss", key, 0, <<>>, FALSE)
    /\ UNCHANGED <<authVars, items, todoVars, jobVars, redis, store>>

\* cached.wrapper from the call of the wrapped function to its return
ListItemsCompute ==
    /\ creq.pc = "miss"
    /\ LET result == list_items(items)
           set == cache_set(creq.key, result, LIST_ITEMS_TTL, redis, store, now) IN
       /\ store' = set.entries
       /\ IF set.raised
          THEN creq' = CacheRequest("answered", creq.key, 500, <<>>, TRUE)
          ELSE creq' = CacheRequest("answered", creq.key, 200, result, TRUE)
    /\ UNCHANGED <<authVars, items, todoVars, jobVars, redis>>

\* The Redis server becomes unreachable, or comes back with its keys.
RedisToggle ==
    /\ redis' = IF redis = "up" THEN "down" ELSE "up"
    /\ UNCHANGED <<authVars, items, todoVars, jobVars, store, creq>>

CacheAtRest ==
    /\ redis = "up"
    /\ store = {}
    /\ creq = NoRequest

(***************************************************************************)
(* models.py, routes/views.py: the per-user todo list.  Every endpoint is  *)
(* behind authenticated_user_dep and answers with a redirect to the        *)
(* dashboard.                                                              *)
(***************************************************************************)
Todo(id, user_id, title, is_done) ==
    [id |-> id, user_id |-> user_id, title |-> title, is_done |-> is_done]

NoTodo == Todo(None, None, "", FALSE)

Titles == {"buy milk"}
\* The ids a request names: the last one is never handed out, so that a
\* request can always name a todo that does not exist.
TodoIds == {1, 2, 3}

TodoResponse(c, kind, cookie, status, user_id, todo_id) ==
    [Response(c, kind, cookie, status, "none", user_id, {}) EXCEPT !.todo_id = todo_id]

\* The lookup by id alone, whoever owns the row.
query_todo_AnyOwner(rows, todo_id, user_id) ==
    IF \E t \in rows : t.id = todo_id
    THEN CHOOSE t \in rows : t.id = todo_id
    ELSE NoTodo

\* db.query(Todo).filter(Todo.id == todo_id, Todo.user_id == current_user.id).first()
query_todo(rows, todo_id, user_id) ==
    IF \E t \in rows : t.id = todo_id /\ t.user_id = user_id
    THEN CHOOSE t \in rows : t.id = todo_id /\ t.user_id = user_id
    ELSE NoTodo

\* routes/views.py: POST /todos
AddTodo(c, cookie, title) ==
    /\ \E id \in TodoIds : id > nextTodoId
    /\ LET auth == require_authenticated_user(cookie, users, now) IN
       IF auth.status # 200
       THEN /\ resp' = TodoResponse(c, "add_todo", cookie, 401, None, None)
            /\ UNCHANGED <<todos, nextTodoId>>
       ELSE /\ todos' = todos \cup {Todo(nextTodoId, auth.user.id, title, FALSE)}
            /\ nextTodoId' = nextTodoId + 1
            /\ resp' = TodoResponse(c, "add_todo", cookie, 302, auth.user.id, nextTodoId)
    /\ UNCHANGED <<users, nextId, now, ticks, issued, jar, life, reg>>
    /\ UNCHANGED <<items, jobVars, cacheVars>>

\* routes/views.py: POST /todos/{todo_id}/toggle
ToggleTodo(c, cookie, todo_id) ==
    /\ LET auth == require_authenticated_user(cookie, users, now) IN
       IF auth.status # 200
       THEN /\ resp' = TodoResponse(c, "toggle_todo", cookie, 401, None, todo_id)
            /\ UNCHANGED todos
       ELSE LET todo == query_todo(todos, todo_id, auth.user.id) IN
            /\ todos' = IF todo # NoTodo
                        THEN (todos \ {todo}) \cup {[todo EXCEPT !.is_done = ~todo.is_done]}
                        ELSE todos
            /\ resp' = TodoResponse(c, "toggle_todo", cookie, 302, auth.user.id, todo_id)
    /\ UNCHANGED <<users, nextId, now, ticks, issued, jar, life, reg>>
    /\ UNCHANGED <<items, nextTodoId, jobVars, cacheVars>>

\* routes/views.py: POST /todos/{todo_id}/delete
DeleteTodo(c, cookie, todo_id) ==
    /\ LET auth == require_authenticated_user(cookie, users, now) IN
       IF auth.status # 200
       THEN /\ resp' = TodoResponse(c, "delete_todo", cookie, 401, None, todo_id)
            /\ UNCHANGED todos
       ELSE LET todo == query_todo(todos, todo_id, auth.user.id) IN
            /\ todos' = IF todo # NoTodo THEN todos \ {todo} ELSE todos
            /\ resp' = TodoResponse(c, "delete_todo", cookie, 302, auth.user.id, todo_id)
    /\ UNCHANGED <<users, nextId, now, ticks, issued, jar, life, reg>>
    /\ UNCHANGED <<items, nextTodoId, jobVars, cacheVars>>

(***************************************************************************)
(* The database the gate is exercised against: one row created outside the *)
(* registration flow (is_active, is_superuser and role membership are only *)
(* ever set there).                                                        *)
(***************************************************************************)
SeedUsers ==
    {User(1, SeedEmail, hash_password("pw1"), a, s, r) :
        a \in BOOLEAN, s \in BOOLEAN, r \in {{}, {"editor"}}}

AuthAtRest ==
    /\ nextId = 2
    /\ now = 0
    /\ ticks = 0
    /\ issued = {}
    /\ jar = [c \in Clients |-> NoToken]
    /\ life = [c \in Clients |-> "none"]
    /\ reg = [c \in Clients |-> Idle]
    /\ resp = NoResponse

(***************************************************************************)
(* SpecGate: the token codec and the authorization gate against requests   *)
(* carrying any cookie, as time passes.                                    *)
(***************************************************************************)
InitGate ==
    /\ \E seed \in SeedUsers : users = {seed}
    /\ AuthAtRest
    /\ JobsAtRest
    /\ CacheAtRest

NextGate ==
    \/ \E email \in {SeedEmail, "a@example.com"}, password \in Passwords :
          Login(Anyone, email, password)
    \/ \E d \in {1, SESSION_MAX_AGE_SECONDS} : Tick(d)
    \/ DeleteUser
    \/ \E cookie \in Presentable : CurrentUserRequest(Anyone, cookie)
    \/ \E cookie \in Presentable : Dashboard(Anyone, cookie)
    \/ \E cookie \in Presentable, roles \in SUBSET RoleNames :
          RoleRequest(Anyone, cookie, roles)

SpecGate == InitGate /\ [][NextGate]_vars

(***************************************************************************)
(* SpecSession: browsers with a cookie jar registering, logging in and     *)
(* out, and opening the dashboard, served by concurrent workers.           *)
(***************************************************************************)
InitSession ==
    /\ users = {User(1, SeedEmail, hash_password("pw1"), TRUE, FALSE, {})}
    /\ AuthAtRest
    /\ JobsAtRest
    /\ CacheAtRest

NextSession ==
    \/ \E c \in Clients, email \in Emails : RegisterCheck(c, email, "pw1")
    \/ \E c \in Clients : RegisterCommit(c)
    \/ \E c \in Clients, email \in Emails, password \in Passwords :
          Login(c, email, password)
    \/ \E c \in Clients : Logout(c)
    \/ \E c \in Clients : reg[c].pc = "idle" /\ Dashboard(c, jar[c])

SpecSession == InitSession /\ [][NextSession]_vars

(***************************************************************************)
(* SpecPublish: signed-in and anonymous clients asking for an item to be   *)
(* processed, with and without a configured broker.                        *)
(***************************************************************************)
InitPublish ==
    /\ users = {User(1, SeedEmail, hash_password("pw1"), TRUE, FALSE, {})}
    /\ AuthAtRest
    /\ items = <<>>
    /\ todos = {}
    /\ nextTodoId = 1
    /\ broker \in [configured : BOOLEAN, credentials : BOOLEAN]
    /\ publisher = "None"
    /\ topic = {}
    /\ push = [w \in Workers |-> NoPush]
    /\ CacheAtRest

NextPublish ==
    \/ \E c \in Clients, password \in Passwords :
          Login(c, SeedEmail, password)
    \/ \E c \in Clients : Logout(c)
    \/ \E c \in Clients, item_id \in ItemIds, accepted \in BOOLEAN :
          ProcessItem(c, jar[c], item_id, accepted)

SpecPublish == InitPublish /\ [][NextPublish]_vars

(***************************************************************************)
(* SpecPush: the broker (or anyone) delivering envelopes to the workers,   *)
(* each any number of times, deliveries overlapping.                       *)
(***************************************************************************)
InitPush ==
    /\ users = {User(1, SeedEmail, hash_password("pw1"), TRUE, FALSE, {})}
    /\ AuthAtRest
    /\ JobsAtRest
    /\ CacheAtRest

NextPush ==
    \/ \E w \in Workers, body \in Bodies : PushReceive(w, body)
    \/ \E w \in Workers : PushDecode(w)
    \/ \E w \in Workers : PushHandle(w)
    \/ InsertItem

SpecPush == InitPush /\ [][NextPush]_vars

(***************************************************************************)
(* SpecCache: GET /api/items requests, one after another, while time       *)
(* passes, rows are inserted and Redis comes and goes.                     *)
(***************************************************************************)
InitCache ==
    /\ users = {User(1, SeedEmail, hash_password("pw1"), TRUE, FALSE, {})}
    /\ AuthAtRest
    /\ JobsAtRest
    /\ CacheAtRest

NextCache ==
    \/ \E addr \in SessionAddrs : ListItemsGet(addr)
    \/ ListItemsCompute
    \/ RedisToggle
    \/ \E d \in {1, LIST_ITEMS_TTL - 1} : Tick(d)
    \/ InsertItem

SpecCache == InitCache /\ [][NextCache]_vars

(***************************************************************************)
(* SpecTodo: two active users and one deactivated one, signed in from      *)
(* browsers, adding, toggling and deleting todos by id.                    *)
(***************************************************************************)
InitTodo ==
    /\ users = {User(1, SeedEmail, hash_password("pw1"), TRUE, FALSE, {}),
                User(2, "a@example.com", hash_password("pw1"), TRUE, FALSE, {}),
                User(3, "b@example.com", hash_password("pw1"), FALSE, FALSE, {})}
    /\ nextId = 4
    /\ now = 0
    /\ ticks = 0
    /\ issued = {}
    /\ jar = [c \in Clients |-> NoToken]
    /\ life = [c \in Clients |-> "none"]
    /\ reg = [c \in Clients |-> Idle]
    /\ resp = NoResponse
    /\ JobsAtRest
    /\ CacheAtRest

NextTodo ==
    \/ \E c \in Clients, email \in Emails \cup {SeedEmail} : Login(c, email, "pw1")
    \/ \E c \in Clients : Logout(c)
    \/ \E c \in Clients, title \in Titles : AddTodo(c, jar[c], title)
    \/ \E c \in Clients, todo_id \in TodoIds : ToggleTodo(c, jar[c], todo_id)
    \/ \E c \in Clients, todo_id \in TodoIds : DeleteTodo(c, jar[c], todo_id)

SpecTodo == InitTodo /\ [][NextTodo]_vars

(***************************************************************************)
(* Properties of the gate and the codec (SpecGate).                        *)
(***************************************************************************)
\* The step is the response of an endpoint of the given kind.
Answered(kind) == resp' # resp /\ resp'.kind = kind

\* tok was issued by create_session_token and is at most 7 days old.
LiveSession(tok) == tok \in issued /\ now - tok.ts <= 604800

\* C1: a request with a valid session of an active user is granted by require_role
\* when the user is a superuser, whatever roles it holds, and otherwise exactly
\* when one of its role names is in the required list; it is refused with 403 in
\* every other case.
C1_RequireRole ==
    [][Answered("role") =>
        \A u \in users :
            (LiveSession(resp'.presented) /\ u.id = resp'.presented.user_id /\ u.is_active)
            => IF u.is_superuser \/ (\E r \in u.roles : r \in resp'.roles)
               THEN resp'.status = 200 /\ resp'.user_id = u.id
               ELSE resp'.status = 403]_vars

\* A superuser holding no role was granted an endpoint that requires a role.
C1_Witness ==
    /\ resp.kind = "role" /\ resp.status = 200 /\ resp.roles = {"admin"}
    /\ \E u \in users : u.id = resp.user_id /\ u.is_superuser /\ u.roles = {}

\* C2 as claimed: get_current_user returns a user only for a valid session whose
\* user row exists and is active.
C2_Original ==
    [][Answered("current_user") =>
        (resp'.user_id # None =>
            /\ LiveSession(resp'.presented)
            /\ \E u \in users : u.id = resp'.user_id /\ u.is_active)]_vars

\* C2: get_current_user returns absent when the cookie is missing, the token is
\* invalid or expired, or no user row has the token's user id; otherwise it returns
\* that row, whether or not its active flag is set.
C2_CurrentUser ==
    [][Answered("current_user") =>
        IF /\ LiveSession(resp'.presented)
           /\ \E u \in users : u.id = resp'.presented.user_id
        THEN resp'.user_id = resp'.presented.user_id
        ELSE resp'.user_id = None]_vars

\* get_current_user returned a row whose active flag is false.
C2_Witness ==
    /\ resp.kind = "current_user" /\ resp.user_id # None
    /\ \E u \in users : u.id = resp.user_id /\ ~u.is_active

\* C3: get_user_id_from_token returns a user id exactly for the tokens that
\* create_session_token issued for that id at most 604800 seconds ago; an expired
\* token and an altered one both give absent.
C3_TokenCodec ==
    \A tok \in Presentable \ {NoToken} :
        LET got == get_user_id_from_token(tok, now) IN
        /\ got # None => tok \in issued /\ now - tok.ts <= 604800 /\ got = tok.user_id
        /\ (tok \in issued /\ now - tok.ts <= 604800) => got = tok.user_id
        /\ (tok \in issued /\ now - tok.ts > 604800) => got = None
        /\ tok \notin issued => got = None

\* A request presented an issued token one second after it expired, and one issued
\* token is exactly 604800 seconds old.
C3_Witness ==
    /\ resp.kind = "current_user" /\ resp.user_id = None
    /\ resp.presented \in issued /\ now - resp.presented.ts = 604801
    /\ \E tok \in issued : now - tok.ts = 604800

(***************************************************************************)
(* Properties of the session lifecycle and of registration (SpecSession).  *)
(***************************************************************************)
\* C4: a successful registration sets the session cookie, a following logout
\* clears it, and a later request of that client to an authenticated-only endpoint
\* is answered 401.
C4_Lifecycle ==
    [][/\ (Answered("register") /\ resp'.status = 302) =>
            /\ resp'.cookie = "set"
            /\ jar'[resp'.client] = Token(resp'.user_id, now,
                                         Sign("change-me", resp'.user_id, now))
       /\ \A c \in Clients :
            (life[c] = "registered" /\ Answered("logout") /\ resp'.client = c) =>
                resp'.cookie = "clear" /\ jar'[c] = NoToken
       /\ \A c \in Clients :
            (life[c] = "registered_loggedout" /\ Answered("dashboard") /\ resp'.client = c)
                => resp'.presented = NoToken /\ resp'.status = 401]_vars

\* A client that registered and logged out was refused the dashboard.
C4_Witness ==
    /\ resp.kind = "dashboard" /\ resp.status = 401
    /\ life[resp.client] = "registered_loggedout"

\* The step is the COMMIT of client c's registration.
Commits(c) == reg[c].pc = "commit" /\ reg'[c].pc = "idle"

\* C10: a registration attempt with an email that belongs to a user re-renders
\* the form with an error (HTTP 400) and creates no row, and no two rows share an
\* email, under every interleaving of registration requests.
C10_DuplicateEmail ==
    [][/\ \A c \in Clients :
            (Commits(c) /\ \E u \in users : u.email = reg[c].email) =>
                resp'.status = 400 /\ users' = users
       /\ \A u, v \in users' : u.email = v.email => u = v]_vars

(***************************************************************************)
(* Properties of the cached listing (SpecCache).                           *)
(***************************************************************************)
\* The step is cached.wrapper looking the key up for a new request.
LooksUp == creq.pc \in {"idle", "answered"} /\ creq'.pc # creq.pc

\* The step ends a GET /api/items request.
Listed == creq.pc # "answered" /\ creq'.pc = "answered"

\* C5: with Redis reachable, a request for the listing made while a result a
\* former request stored is less than 30 seconds old does not invoke the wrapped
\* read and returns the stored value.
C5_CachedWithinTtl ==
    [][(LooksUp /\ redis = "up") =>
        \A e \in store :
            e.expires > now =>
                /\ creq'.pc = "answered" /\ ~creq'.computed
                /\ creq'.status = 200 /\ creq'.value = e.value.json_text]_vars

\* C6: a request served while Redis is unreachable still invokes the wrapped
\* read and returns its result.
C6_StoreUnreachable ==
    [][(Listed /\ redis = "down") =>
        /\ creq'.status = 200
        /\ creq'.computed
        /\ creq'.value = list_items(items)]_vars

(***************************************************************************)
(* Properties of the job path (SpecPublish, SpecPush).                     *)
(***************************************************************************)
\* The step is worker w answering the delivery it serves.
Acks(w) == push[w].pc # "answered" /\ push'[w].pc = "answered"

\* C7: the push endpoint answers 400 when data is absent or fails base64 or JSON
\* decoding, and 200 for every decodable payload, having invoked the
\* process_item handler with the payload's item_id exactly when the payload's
\* type is "process_item".
C7_PushResponses ==
    [][\A w \in Workers :
        Acks(w) =>
            LET body == push'[w].body IN
            IF body.enc # "json"
            THEN push'[w].status = 400 /\ push'[w].invoked = NotInvoked
            ELSE /\ push'[w].status = 200
                 /\ IF body.value.type = "process_item"
                    THEN push'[w].invoked = body.value.item_id
                    ELSE push'[w].invoked = NotInvoked]_vars

\* C8: POST /api/items/{item_id}/process by an authenticated user always
\* completes with the "queued" response: publish_event never raises.
C8_PublishNeverRaises ==
    [][(Answered("process_item") /\ resp'.user_id # None) => resp'.status = 200]_vars

\* C9: a delivery of an envelope that another delivery has already answered
\* leaves the persistent state (users, todos, items) as it was, and is answered with the
\* same response.
C9_Redelivery ==
    [][\A w, v \in Workers :
        (Acks(w) /\ v # w /\ push[v].pc = "answered" /\ push[v].body = push'[w].body)
        => /\ users' = users /\ items' = items /\ todos' = todos
           /\ push'[w].status = push[v].status]_vars

\* Two workers have answered deliveries of the same process_item job, after rows
\* were inserted.
C9_Witness ==
    /\ push[1].pc = "answered" /\ push[2].pc = "answered"
    /\ push[1].body = [enc |-> "json",
                       value |-> [json |-> "object", type |-> "process_item", item_id |-> 1]]
    /\ push[2].body = push[1].body
    /\ push[1].invoked = 1 /\ push[2].invoked = 1
    /\ push[1].status = 200 /\ push[2].status = 200
    /\ Len(items) = 2

(***************************************************************************)
(* Properties of the todo list (SpecTodo).                                 *)
(***************************************************************************)
\* The user a request is authenticated as: the active user whose unexpired,
\* issued session token it presents; None when there is none.
AuthenticatedAs(tok) ==
    IF LiveSession(tok) /\ \E u \in users : u.id = tok.user_id /\ u.is_active
    THEN tok.user_id
    ELSE None

\* C11: a todo is removed or has its is_done flag changed only by a toggle or
\* delete request that names it and is authenticated as its owner, and nothing
\* else about it changes; a toggle or delete naming another user's todo or no
\* todo leaves every todo as it was; add_todo creates one todo, not done, under
\* the authenticated user's id.
C11_TodoOwnership ==
    [][LET me == AuthenticatedAs(resp'.presented) IN
       /\ \A t \in todos \ todos' :
            /\ resp'.kind \in {"toggle_todo", "delete_todo"}
            /\ resp'.todo_id = t.id
            /\ me # None /\ me = t.user_id
            /\ resp'.kind = "delete_todo" => todos' = todos \ {t}
            /\ resp'.kind = "toggle_todo" =>
                   todos' = (todos \ {t}) \cup {Todo(t.id, t.user_id, t.title, ~t.is_done)}
       /\ (/\ resp'.kind \in {"toggle_todo", "delete_todo"}
           /\ ~\E t \in todos : t.id = resp'.todo_id /\ t.user_id = me)
            => todos' = todos
       /\ \A t \in todos' \ todos :
            \/ resp'.kind = "toggle_todo" /\ (\E o \in todos \ todos' : o.id = t.id)
            \/ /\ resp'.kind = "add_todo"
               /\ me # None /\ t.user_id = me /\ ~t.is_done
               /\ \A o \in todos : o.id # t.id
               /\ todos' = todos \cup {t}]_vars

\* A signed-in user asked to toggle a todo that another user owns and that is
\* already done, and the todo is still there.
C11_Witness ==
    /\ resp.kind = "toggle_todo" /\ resp.status = 302
    /\ \E t \in todos :
          t.id = resp.todo_id /\ t.user_id # resp.user_id /\ t.is_done
    /\ \E t \in todos : t.user_id = resp.user_id

====
